---- MODULE Spec2Model ----
(***************************************************************************)
(* Model of the shout audio pipeline:                                      *)
(*   - shout_core/src/audio/decoder.rs  decode_to_f32_mono_16k             *)
(*   - shout_core/src/audio/mel.rs      pcm_to_mel_frames_flat             *)
(*   - shout_tools/src/tsv_to_jsonl.rs  convert                            *)
(* Each function is a state machine of its own (SpecDecode, SpecMel,       *)
(* SpecManifest); the variables of the other two stay idle.                *)
(***************************************************************************)
EXTENDS Integers, Sequences, FiniteSets, TLC

VARIABLES
    \* ---- decode_to_f32_mono_16k ----
    codec_sample_rate,   \* track.codec_params.sample_rate : Option<u32>
    codec_channels,      \* track.codec_params.channels (count) : Option
    stream,              \* packets delivered by format.next_packet so far
    endErr,              \* the error that ended the packet loop, if any
    pc,                  \* "loop" | "after_loop" | "done"
    interleaved_f32,     \* accumulator of decoded interleaved samples
    input_sample_rate,   \* Option<u32>
    input_channels,      \* Option<usize>
    mono,                \* downmixed samples, as <<numerator, denominator>>
    result,              \* return value of decode_to_f32_mono_16k
    \* ---- pcm_to_mel_frames_flat ----
    pcm_len,             \* pcm_16k_mono.len()
    n_mels,              \* parameter n_mels
    mel_pc,              \* "hops" | "flatten" | "done"
    hops_fed,            \* chunks of the input handed to stft.add so far
    stft_idx,            \* samples accumulated inside the Spectrogram
    mel_frames,          \* hop numbers whose mel frame was pushed
    mel_result,          \* value returned: flat length and n_frames
    \* ---- convert ----
    rows,                \* TSV rows read so far
    cv_pc,               \* "rows" | "done"
    out_lines,           \* manifest lines written
    kept,
    skipped_missing_audio,
    skipped_empty_prompt,
    cv_result

decVars == <<codec_sample_rate, codec_channels, stream, endErr, pc,
             interleaved_f32, input_sample_rate, input_channels, mono, result>>
melVars == <<pcm_len, n_mels, mel_pc, hops_fed, stft_idx, mel_frames, mel_result>>
cvVars  == <<rows, cv_pc, out_lines, kept, skipped_missing_audio,
             skipped_empty_prompt, cv_result>>
vars == <<decVars, melVars, cvVars>>

\* Option<T>: None is the empty sequence, Some(v) the one-element sequence.
None == <<>>
Some(v) == <<v>>

-----------------------------------------------------------------------------
(* Bounds of the model *)
MaxPackets == 3
MaxRows == 3
MaxPcmLen == 1000

-----------------------------------------------------------------------------
(*                      decode_to_f32_mono_16k                             *)

SR_OUT == 16000

\* Sample rates a container or a decoded buffer may report.
Rates == {16000, 48000}
\* Channel counts a container or a decoded buffer may report.
ChannelCounts == {1, 2}
\* Frames per decoded buffer (a decoder may return an empty buffer).
FrameCounts == {0, 1}

\* symphonia::core::errors::Error; IoError carries a std::io::Error, whose
\* kind is UnexpectedEof at end of stream and something else otherwise.
\* "Other" stands for SeekError, Unsupported and LimitError.
IoErrors == {"IoError_UnexpectedEof", "IoError_Other"}
ErrKinds == IoErrors \cup {"DecodeError", "Other", "ResetRequired"}

MsgResetRead    == "decoder reset required (chained streams). handle by recreating decoder."
MsgResetDecode  == "decoder reset required mid-stream. handle by recreating decoder."
MsgReadErr      == "error reading next packet"
MsgDecodeErr    == "unrecoverable decode error"
MsgNoRate       == "could not determine input sample rate"
MsgNoChannels   == "could not determine channel count"
MsgEmpty        == "decoded audio was empty"

NoResult == [tag |-> "None"]
Err(m) == [tag |-> "Err", msg |-> m]
Ok(n, how) == [tag |-> "Ok", len |-> n, how |-> how]

\* Mutant: ResetRequired falls into the end-of-stream arm.
OnNextPacketErr_ResetBreaks(e) ==
    IF e \in IoErrors \cup {"ResetRequired"} THEN "break" ELSE "fatal"

\* What the match on format.next_packet()'s error does.
OnNextPacketErr(e) ==
    IF e = "ResetRequired" THEN "reset"
    ELSE IF e \in IoErrors THEN "break"
    ELSE "fatal"

\* Mutant: a DecodeError falls into the catch-all arm and aborts the file.
OnDecodeErr_DecodeErrorFatal(e) ==
    IF e \in IoErrors THEN "continue"
    ELSE IF e = "ResetRequired" THEN "reset"
    ELSE "fatal"

\* What the match on decoder.decode()'s error does.
OnDecodeErr(e) ==
    IF e \in IoErrors THEN "continue"
    ELSE IF e = "DecodeError" THEN "continue"
    ELSE IF e = "ResetRequired" THEN "reset"
    ELSE "fatal"

\* Option::get_or_insert
get_or_insert(opt, v) == IF opt = None THEN Some(v) ELSE opt

\* The interleaved samples SampleBuffer::samples() yields for the i-th packet
\* of the stream: frames * channels values, each one distinct.
SamplesOf(i, ch, frames) == [k \in 1..(ch * frames) |-> 10 * i + k]

\* Vec::extend_from_slice
extend_from_slice(acc, s) == acc \o s

RECURSIVE SumRange(_, _, _)
SumRange(s, lo, hi) == IF lo > hi THEN 0 ELSE s[lo] + SumRange(s, lo + 1, hi)

\* Downmix to mono: each output value is sum / ch_in, kept as the exact
\* fraction <<sum, ch_in>>.
Downmix(acc, ch_in) ==
    IF ch_in = 1
    THEN [f \in 1..Len(acc) |-> <<acc[f], 1>>]
    ELSE LET frames == Len(acc) \div ch_in
         IN  [f \in 1..frames |->
                 <<SumRange(acc, (f - 1) * ch_in + 1, (f - 1) * ch_in + ch_in), ch_in>>]

\* Frames the rubato FFT resampler reports as written for n input frames at
\* rate sr_in, to which out is truncated: ceil(n * SR_OUT / sr_in). The
\* resampled values themselves are not modelled, only their number.
FramesWritten(n, sr_in) == (n * SR_OUT + sr_in - 1) \div sr_in

\* Everything after the packet loop: resolve rate and channels, reject empty
\* audio, downmix, resample.
AfterLoop(acc, isr, ich) ==
    IF isr = None THEN [mono |-> <<>>, result |-> Err(MsgNoRate)]
    ELSE IF ich = None THEN [mono |-> <<>>, result |-> Err(MsgNoChannels)]
    ELSE IF acc = <<>> THEN [mono |-> <<>>, result |-> Err(MsgEmpty)]
    ELSE LET sr_in == isr[1]
             ch_in == ich[1]
             m == Downmix(acc, ch_in)
         IN  IF sr_in = SR_OUT
             THEN [mono |-> m, result |-> Ok(Len(m), "passthrough")]
             ELSE [mono |-> m, result |-> Ok(FramesWritten(Len(m), sr_in), "resampled")]

melIdle == /\ pcm_len = 0 /\ n_mels = 1 /\ mel_pc = "idle" /\ hops_fed = 0
           /\ stft_idx = 0 /\ mel_frames = <<>> /\ mel_result = NoResult
cvIdle  == /\ rows = <<>> /\ cv_pc = "idle" /\ out_lines = <<>> /\ kept = 0
           /\ skipped_missing_audio = 0 /\ skipped_empty_prompt = 0
           /\ cv_result = NoResult
decIdle == /\ codec_sample_rate = None /\ codec_channels = None /\ stream = <<>>
           /\ endErr = None /\ pc = "idle" /\ interleaved_f32 = <<>>
           /\ input_sample_rate = None /\ input_channels = None
           /\ mono = <<>> /\ result = NoResult

InitDecode ==
    /\ codec_sample_rate \in {None} \cup {Some(r) : r \in Rates}
    /\ codec_channels \in {None} \cup {Some(c) : c \in ChannelCounts}
    /\ stream = <<>>
    /\ endErr = None
    /\ pc = "loop"
    /\ interleaved_f32 = <<>>
    /\ input_sample_rate = codec_sample_rate
    /\ input_channels = None
    /\ mono = <<>>
    /\ result = NoResult
    /\ melIdle /\ cvIdle

decKeep == UNCHANGED <<codec_sample_rate, codec_channels, melVars, cvVars>>

\* format.next_packet() fails with e.
NextPacketErr ==
    /\ pc = "loop"
    /\ \E e \in ErrKinds :
        /\ endErr' = Some([at |-> "next_packet", kind |-> e])
        /\ LET o == OnNextPacketErr(e) IN
            /\ pc' = IF o = "break" THEN "after_loop" ELSE "done"
            /\ result' = IF o = "reset" THEN Err(MsgResetRead)
                         ELSE IF o = "fatal" THEN Err(MsgReadErr)
                         ELSE result
    /\ UNCHANGED <<stream, interleaved_f32, input_sample_rate, input_channels, mono>>
    /\ decKeep

\* A packet of another track: continue.
SkipPacket ==
    /\ pc = "loop"
    /\ Len(stream) < MaxPackets
    /\ stream' = Append(stream, [kind |-> "other_track"])
    /\ UNCHANGED <<endErr, pc, interleaved_f32, input_sample_rate, input_channels,
                   mono, result>>
    /\ decKeep

\* A packet of the selected track on which decoder.decode() fails with e.
DecodeErr ==
    /\ pc = "loop"
    /\ Len(stream) < MaxPackets
    /\ \E e \in ErrKinds :
        LET o == OnDecodeErr(e) IN
        /\ stream' = Append(stream, [kind |-> "decode_err", err |-> e])
        /\ pc' = IF o = "continue" THEN "loop" ELSE "done"
        /\ endErr' = IF o = "continue" THEN endErr
                     ELSE Some([at |-> "decode", kind |-> e])
        /\ result' = IF o = "reset" THEN Err(MsgResetDecode)
                     ELSE IF o = "fatal" THEN Err(MsgDecodeErr)
                     ELSE result
    /\ UNCHANGED <<interleaved_f32, input_sample_rate, input_channels, mono>>
    /\ decKeep

\* A packet of the selected track that decodes to a buffer.
DecodeOk ==
    /\ pc = "loop"
    /\ Len(stream) < MaxPackets
    /\ \E r \in Rates, ch \in ChannelCounts, fr \in FrameCounts :
        /\ stream' = Append(stream, [kind |-> "ok", rate |-> r, ch |-> ch, frames |-> fr])
        /\ input_sample_rate' = get_or_insert(input_sample_rate, r)
        /\ input_channels' = get_or_insert(input_channels, ch)
        /\ interleaved_f32' =
              extend_from_slice(interleaved_f32, SamplesOf(Len(stream) + 1, ch, fr))
    /\ UNCHANGED <<endErr, pc, mono, result>>
    /\ decKeep

\* The code after the loop, up to the return.
Finish ==
    /\ pc = "after_loop"
    /\ LET t == AfterLoop(interleaved_f32, input_sample_rate, input_channels) IN
        /\ mono' = t.mono
        /\ result' = t.result
    /\ pc' = "done"
    /\ UNCHANGED <<stream, endErr, interleaved_f32, input_sample_rate, input_channels>>
    /\ decKeep

NextDecode == NextPacketErr \/ SkipPacket \/ DecodeErr \/ DecodeOk \/ Finish

SpecDecode == InitDecode /\ [][NextDecode]_vars

-----------------------------------------------------------------------------
(*                 Properties of decode_to_f32_mono_16k                    *)

IsOk(p) == p.kind = "ok"
IsTransient(p) == p.kind = "decode_err" /\ p.err \in IoErrors \cup {"DecodeError"}
OkIndexes == {i \in 1..Len(stream) : IsOk(stream[i])}
NothingDecoded == OkIndexes = {}
FirstOk == stream[CHOOSE i \in OkIndexes : \A j \in OkIndexes : i <= j]

\* The samples of the successfully decoded packets of s, in packet order.
RECURSIVE DecodedSamples(_, _)
DecodedSamples(s, n) ==
    IF n = 0 THEN <<>>
    ELSE DecodedSamples(s, n - 1) \o
         (IF IsOk(s[n]) THEN SamplesOf(n, s[n].ch, s[n].frames) ELSE <<>>)

EndedBy(at, kinds) == endErr # None /\ endErr[1].at = at /\ endErr[1].kind \in kinds
LoopBroke == EndedBy("next_packet", IoErrors)
Returned == pc = "done"
ReturnedOk == pc = "done" /\ result.tag = "Ok"

\* C1: a transient decode error (IoError or DecodeError from decoder.decode)
\* never aborts the file: the failing packet adds no samples, the loop goes on
\* to the next packet, and the accumulator holds exactly the samples of the
\* successfully decoded packets, in packet order.
C1_TransientDecodeErrorSkipped ==
    /\ interleaved_f32 = DecodedSamples(stream, Len(stream))
    /\ (stream # <<>> /\ IsTransient(stream[Len(stream)])) =>
          /\ ~EndedBy("decode", ErrKinds)
          /\ (endErr = None => pc = "loop" /\ result = NoResult)

\* C1 witness: the loop has ended after a good packet, a transient failure and
\* another good packet, and the function returned samples.
C1_Witness ==
    /\ ReturnedOk
    /\ Len(stream) = 3
    /\ IsOk(stream[1]) /\ stream[1].frames > 0
    /\ IsTransient(stream[2])
    /\ IsOk(stream[3]) /\ stream[3].frames > 0

\* C2: ResetRequired, from next_packet or from decode, is always fatal: the
\* function returns an error, never samples, and reads no further packet.
C2_ResetRequiredFatal ==
    EndedBy("next_packet", {"ResetRequired"}) \/ EndedBy("decode", {"ResetRequired"})
        => /\ pc = "done"
           /\ result \in {Err(MsgResetRead), Err(MsgResetDecode)}

\* C2 witness: a reset reported after samples had already been accumulated.
C2_Witness ==
    /\ EndedBy("next_packet", {"ResetRequired"})
    /\ interleaved_f32 # <<>>
    /\ result.tag = "Err"

\* C3 (as claimed): when no packet was decoded by the end of the loop the
\* function fails with "decoded audio was empty"; the unknown-rate and
\* unknown-channel errors appear only when neither the container nor a
\* decoded buffer supplied the value.
C3_EmptyAudioWhenNothingDecoded ==
    (Returned /\ LoopBroke) =>
        /\ NothingDecoded =>
              \/ result = Err(MsgEmpty)
              \/ result = Err(MsgNoRate) /\ codec_sample_rate = None
              \/ result = Err(MsgNoChannels) /\ codec_channels = None
        /\ (result = Err(MsgNoRate) => codec_sample_rate = None /\ NothingDecoded)
        /\ (result = Err(MsgNoChannels) => codec_channels = None /\ NothingDecoded)

\* C4 (as claimed): the rate and the channel count used for downmixing and
\* resampling are the container's declared values when declared, else those of
\* the first successfully decoded buffer.
C4_ContainerValuesPreferred ==
    ReturnedOk =>
        /\ input_sample_rate =
              (IF codec_sample_rate # None THEN codec_sample_rate
               ELSE Some(FirstOk.rate))
        /\ input_channels =
              (IF codec_channels # None THEN codec_channels
               ELSE Some(FirstOk.ch))

\* C5 (as claimed): the accumulated sample count is a multiple of the resolved
\* channel count, the downmixed length is exactly input length / channel count
\* with no sample dropped, and each output is the mean of its frame.
C5_DownmixExact ==
    ReturnedOk =>
        LET ch == input_channels[1]
            n  == Len(interleaved_f32)
        IN  /\ n % ch = 0
            /\ Len(mono) * ch = n
            /\ \A f \in 1..Len(mono) :
                  mono[f] = <<SumRange(interleaved_f32, (f - 1) * ch + 1, f * ch), ch>>

\* C9 (as claimed): every Ok return is a non-empty sample sequence.
C9_OkIsNonEmpty ==
    ReturnedOk => result.len > 0 /\ mono # <<>>

\* C10 (as claimed): the read loop never gets stuck before returning;
\* end-of-stream (IoError with UnexpectedEof) ends the loop normally with the
\* samples accumulated so far; any other read error but ResetRequired is
\* returned as a fatal error.
C10_EndOfStreamOnly ==
    /\ (pc = "done" \/ ENABLED NextDecode)
    /\ EndedBy("next_packet", {"IoError_UnexpectedEof"}) =>
          /\ pc \in {"after_loop", "done"}
          /\ result # Err(MsgReadErr)
          /\ interleaved_f32 = DecodedSamples(stream, Len(stream))
    /\ EndedBy("next_packet", ErrKinds \ {"IoError_UnexpectedEof", "ResetRequired"}) =>
          /\ pc = "done"
          /\ result = Err(MsgReadErr)

-----------------------------------------------------------------------------
(*                        pcm_to_mel_frames_flat                           *)

fft_size == 400
hop_size == 160
\* third argument of interleave_frames
min_width == 100

\* Input lengths: every short length, and some of a second and more.
PcmLens == (0..MaxPcmLen) \cup {16000, 16320, 16321, 32000}
MelCounts == {1, 2, 80}

CeilDiv(a, b) == (a + b - 1) \div b
Max(a, b) == IF a >= b THEN a ELSE b
Min(a, b) == IF a <= b THEN a ELSE b

\* slice::chunks(hop_size): the number of chunks, and the length of chunk h.
NumChunks(len) == CeilDiv(len, hop_size)
ChunkLen(len, h) == Min(hop_size, len - (h - 1) * hop_size)

\* The hop handed to stft.add: vec![0.0; hop_size] with the chunk copied to
\* its front, so always hop_size samples whatever the chunk's length.
HopLen(chunk_len) == Max(hop_size, chunk_len)

\* mel_spec Spectrogram::add: the samples are accumulated and a frame comes
\* out (Some) only once fft_size samples have been seen; before that, None.
StftAdd(idx, n) ==
    [idx |-> idx + n, frame |-> (idx + n >= fft_size)]

\* mel_spec interleave_frames(frames, false, min_width): one column of n_mels
\* values per frame, zero-padded on the right up to min_width columns. With no
\* frame at all the band count is unknown: the call panics or returns nothing.
interleave_frames(nframes, nm) ==
    IF nframes = 0 THEN {[tag |-> "Panic", len |-> 0], [tag |-> "Ok", len |-> 0]}
    ELSE {[tag |-> "Ok", len |-> Max(nframes, min_width) * nm]}

InitMel ==
    /\ pcm_len \in PcmLens
    /\ n_mels \in MelCounts
    /\ mel_pc = "hops"
    /\ hops_fed = 0
    /\ stft_idx = 0
    /\ mel_frames = <<>>
    /\ mel_result = NoResult
    /\ decIdle /\ cvIdle

melKeep == UNCHANGED <<pcm_len, n_mels, decVars, cvVars>>

\* One iteration of the loop over pcm_16k_mono.chunks(hop_size).
Hop ==
    /\ mel_pc = "hops"
    /\ hops_fed < NumChunks(pcm_len)
    /\ LET h == hops_fed + 1
           a == StftAdd(stft_idx, HopLen(ChunkLen(pcm_len, h)))
       IN  /\ hops_fed' = h
           /\ stft_idx' = a.idx
           /\ mel_frames' = IF a.frame THEN Append(mel_frames, h) ELSE mel_frames
    /\ UNCHANGED <<mel_pc, mel_result>>
    /\ melKeep

\* After the loop: interleave_frames, n_frames = frames.len() / n_mels, return.
Flatten ==
    /\ mel_pc = "hops"
    /\ hops_fed = NumChunks(pcm_len)
    /\ \E frames \in interleave_frames(Len(mel_frames), n_mels) :
          mel_result' = IF frames.tag = "Panic" THEN [tag |-> "Panic"]
                        ELSE [tag |-> "Ok", data_len |-> frames.len,
                              n_frames |-> frames.len \div n_mels]
    /\ mel_pc' = "done"
    /\ UNCHANGED <<hops_fed, stft_idx, mel_frames>>
    /\ melKeep

NextMel == Hop \/ Flatten

SpecMel == InitMel /\ [][NextMel]_vars

\* C6 (as claimed): for an input of length L the hop loop pushes exactly
\* ceil(L / 160) frames, one for every hop, in hop order.
C6_OneFramePerHop ==
    mel_pc = "done" =>
        /\ Len(mel_frames) = CeilDiv(pcm_len, hop_size)
        /\ \A i \in 1..Len(mel_frames) : mel_frames[i] = i

\* C7 (as claimed): for every returned (data, n_frames), len(data) is
\* n_frames * n_mels with no remainder, and n_frames is the number of mel
\* frames pushed during the hop loop.
C7_FrameCountExact ==
    (mel_pc = "done" /\ mel_result.tag = "Ok") =>
        /\ mel_result.data_len % n_mels = 0
        /\ mel_result.data_len = mel_result.n_frames * n_mels
        /\ mel_result.n_frames = Len(mel_frames)

-----------------------------------------------------------------------------
(*                                convert                                  *)

\* Strings are sequences of characters.
Blank == " "
Prompts == {<<>>, <<Blank>>, <<"a">>, <<Blank, "a">>}
AudioFiles == {<<"a">>, <<"a", Blank>>, <<"b">>}
Durations == {<<"7">>, <<>>}
\* Paths under audios_dir that exist.
Disk == {<<"a">>}

RECURSIVE TrimStart(_)
TrimStart(s) == IF s # <<>> /\ Head(s) = Blank THEN TrimStart(Tail(s)) ELSE s
RECURSIVE TrimEnd(_)
TrimEnd(s) ==
    IF s # <<>> /\ s[Len(s)] = Blank THEN TrimEnd(SubSeq(s, 1, Len(s) - 1)) ELSE s
\* str::trim
trim(s) == TrimEnd(TrimStart(s))

\* audios_dir.join(..).exists()
exists(path) == path \in Disk

\* str::parse::<u32>().ok() on the strings of Durations
parse_u32(s) == IF s = <<"7">> THEN Some(7) ELSE None

\* Mutant: the prompt is tested without being trimmed.
RowOutcome_NoTrim(row) ==
    IF row.prompt = <<>> THEN "empty_prompt"
    ELSE IF ~exists(trim(row.audio_file)) THEN "missing_audio"
    ELSE "keep"

\* The two filters of the row loop, in the order the code applies them.
RowOutcome(row) ==
    IF trim(row.prompt) = <<>> THEN "empty_prompt"
    ELSE IF ~exists(trim(row.audio_file)) THEN "missing_audio"
    ELSE "keep"

ManifestLine(row) ==
    [audio_path |-> trim(row.audio_file),
     text |-> trim(row.prompt),
     duration_ms |-> parse_u32(trim(row.duration_ms))]

InitManifest ==
    /\ rows = <<>>
    /\ cv_pc = "rows"
    /\ out_lines = <<>>
    /\ kept = 0
    /\ skipped_missing_audio = 0
    /\ skipped_empty_prompt = 0
    /\ cv_result = NoResult
    /\ decIdle /\ melIdle

cvKeep == UNCHANGED <<decVars, melVars>>

\* One iteration of the loop over rdr.deserialize::<Row>() for a row that
\* parses and whose line, if any, is written.
ReadRow ==
    /\ cv_pc = "rows"
    /\ Len(rows) < MaxRows
    /\ \E p \in Prompts, a \in AudioFiles, d \in Durations :
        LET row == [prompt |-> p, audio_file |-> a, duration_ms |-> d]
            o == RowOutcome(row)
        IN  /\ rows' = Append(rows, row)
            /\ skipped_empty_prompt' =
                  IF o = "empty_prompt" THEN skipped_empty_prompt + 1
                  ELSE skipped_empty_prompt
            /\ skipped_missing_audio' =
                  IF o = "missing_audio" THEN skipped_missing_audio + 1
                  ELSE skipped_missing_audio
            /\ out_lines' =
                  IF o = "keep"
                  THEN Append(out_lines, [row |-> Len(rows) + 1, line |-> ManifestLine(row)])
                  ELSE out_lines
            /\ kept' = IF o = "keep" THEN kept + 1 ELSE kept
    /\ UNCHANGED <<cv_pc, cv_result>>
    /\ cvKeep

\* The next row fails to deserialize: convert returns the error.
RowParseErr ==
    /\ cv_pc = "rows"
    /\ Len(rows) < MaxRows
    /\ cv_pc' = "done"
    /\ cv_result' = Err("Failed to parse a TSV row")
    /\ UNCHANGED <<rows, out_lines, kept, skipped_missing_audio, skipped_empty_prompt>>
    /\ cvKeep

\* The reader is exhausted: flush and return Ok.
EndOfRows ==
    /\ cv_pc = "rows"
    /\ cv_pc' = "done"
    /\ cv_result' = [tag |-> "Ok"]
    /\ UNCHANGED <<rows, out_lines, kept, skipped_missing_audio, skipped_empty_prompt>>
    /\ cvKeep

NextManifest == ReadRow \/ RowParseErr \/ EndOfRows

SpecManifest == InitManifest /\ [][NextManifest]_vars

BlankPrompt(row) == \A i \in 1..Len(row.prompt) : row.prompt[i] = Blank
MissingAudio(row) == trim(row.audio_file) \notin Disk
BlankRows == {i \in 1..Len(rows) : BlankPrompt(rows[i])}
MissingRows == {i \in 1..Len(rows) : MissingAudio(rows[i])}
WrittenRows == {out_lines[k].row : k \in 1..Len(out_lines)}

\* C8 (as claimed): every row whose audio file is missing is left out of the
\* output and counted as missing audio, and every row whose prompt is blank is
\* left out and counted as empty prompt, rows that are both included.
C8_EverySkipCounted ==
    /\ WrittenRows \cap (BlankRows \cup MissingRows) = {}
    /\ skipped_empty_prompt = Cardinality(BlankRows)
    /\ skipped_missing_audio = Cardinality(MissingRows)

\* C8 (amended): every blank or missing-audio row is left out of the output;
\* a blank row counts as empty prompt only, and a row counts as missing audio
\* exactly when its prompt is not blank and its audio file is missing.
C8_SkipCountedOnce ==
    /\ WrittenRows \cap (BlankRows \cup MissingRows) = {}
    /\ skipped_empty_prompt = Cardinality(BlankRows)
    /\ skipped_missing_audio = Cardinality(MissingRows \ BlankRows)
    /\ kept = Len(out_lines)
    /\ WrittenRows = (1..Len(rows)) \ (BlankRows \cup MissingRows)

\* C8 witness: the run is over and met a blank row whose audio is missing, a
\* non-blank row whose audio is missing, and a row that was kept.
C8_Witness ==
    /\ cv_pc = "done"
    /\ BlankRows \cap MissingRows # {}
    /\ MissingRows \ BlankRows # {}
    /\ kept > 0

====
